---- MODULE Spec2Model ----
(***************************************************************************)
(* Client-side session and authorization subsystem of the SPLASP frontend: *)
(* the zustand auth store, the useAuth accessor, the axios request         *)
(* interceptor, the route guards and the role-conditioned route table and  *)
(* navigation bar, together with the login / register submit handlers and  *)
(* the NavBar logout handler that drive them.                              *)
(***************************************************************************)
EXTENDS Integers, Sequences, FiniteSets, TLC

\* ------------------------------------------------------------------ bounds
MaxAttempts == 3     \* authentication calls started in one behaviour
MaxRequests == 1     \* other API requests issued in one behaviour
MaxCalls == 3        \* length of a direct store call sequence (SpecStore)
MaxRedirects == 4    \* redirects followed before a navigation settles

\* ------------------------------------------------------------------ values
Null == "null"                 \* JavaScript null
Undefined == "undefined"       \* JavaScript undefined (missing property)
Tokens == {"t1", "t2"}         \* credentials the backend issues
Roles == {"ADMIN", "USER"}     \* the closed role enumeration
BackendRoles == Roles \cup {"GUEST"}   \* role is typed `string` on the wire
NoHeader == <<>>               \* no Authorization header on the request
Paths == {"/", "/login", "/register", "/projects", "/sessions", "/profile"}
Thrown == {"Error", "other"}   \* what a failed call rejects with

\* JavaScript truthiness of a string | null | undefined value
Truthy(v) == v \notin {Null, Undefined, ""}

\* a field that holds a value (neither null nor undefined)
Present(v) == v \notin {Null, Undefined}

VARIABLES
  contract,    \* which auth service module the bundle resolves: its result has
               \* the field "token" (auth.service.ts) or "accessToken"
  token,       \* useAuthStore state.token
  role,        \* useAuthStore state.role
  path,        \* router location.pathname, after redirects have settled
  form,        \* useState of the mounted LoginPage / RegisterPage instance
  pending,     \* authentication calls awaiting their response
  nextId,      \* id of the next authentication call
  lastHeader,  \* Authorization header the interceptor put on the last request
  nreq,        \* number of requests that went through the interceptor
  delivered,   \* the last successful authentication response: call id,
               \* credential and role the backend issued
  calls        \* SpecStore: the sequence of direct store calls made so far

vars == <<contract, token, role, path, form, pending, nextId, lastHeader, nreq,
          delivered, calls>>

\* ------------------------------------------------------------- auth store
\* state after login(data): set({token: data.token, role: data.role})
login(data) == [token |-> data.token, role |-> data.role]

\* a logout that clears the fields to undefined instead of null
logoutUndefined == [token |-> Undefined, role |-> Undefined]

\* state after logout(): set({token: null, role: null})
logout == [token |-> Null, role |-> Null]

\* the store's initial state
useAuthStore == [token |-> Null, role |-> Null]

\* an accessor that tests only for a missing property
isAuthenticatedLoose(tok) == tok # Undefined

\* useAuth().isAuthenticated: !!token
isAuthenticated(tok) == Truthy(tok)

\* ------------------------------------------------------------ interceptor
\* an interceptor that closes over the token it saw when it was installed
AuthorizationCaptured(tok) ==
  IF Truthy(useAuthStore.token) THEN <<"Bearer", useAuthStore.token>> ELSE NoHeader

\* api.interceptors.request.use: the Authorization header for the store's
\* token at the time the request is sent
Authorization(tok) == IF Truthy(tok) THEN <<"Bearer", tok>> ELSE NoHeader

\* ----------------------------------------------------------- auth service
\* property read obj.f: undefined when the object has no such property
Field(obj, f) == IF f \in DOMAIN obj THEN obj[f] ELSE Undefined

\* response.data of a successful POST /auth/login or /auth/register, shaped
\* as the type parameter of api.post declares it in the bundled service
BackendData(ct, c, r) ==
  IF ct = "token" THEN [access_token |-> c, role |-> r]
                  ELSE [accessToken |-> c, role |-> r]

\* loginUser: the value the service resolves with
loginUser(ct, data) ==
  IF ct = "token"
    THEN [token |-> Field(data, "access_token"), role |-> Field(data, "role")]
    ELSE [accessToken |-> Field(data, "accessToken"), role |-> Field(data, "role")]

\* registerUser: the value the service resolves with
registerUser(ct, data) ==
  IF ct = "token"
    THEN [token |-> Field(data, "access_token"), role |-> Field(data, "role")]
    ELSE [accessToken |-> Field(data, "accessToken"), role |-> Field(data, "role")]

\* LoginPage.onSubmit: the argument it passes to the store's login
LoginPageData(response) ==
  [token |-> Field(response, "accessToken"), role |-> Field(response, "role")]

\* RegisterPage.onSubmit: the argument it passes to the store's login
RegisterPageData(response) ==
  [token |-> Field(response, "token"), role |-> Field(response, "role")]

\* a catch block that swallows the failure
ErrorTextNone(thrown, fallback) == Null

\* the setError text of a catch block
ErrorText(thrown, fallback) == IF thrown = "Error" THEN "err.message" ELSE fallback

\* ------------------------------------------------------------ route guards
\* what a route element does: render a page, or <Navigate to=... replace />
Render(page) == [kind |-> "render", page |-> page, to |-> ""]
Redirect(to) == [kind |-> "redirect", page |-> "blank", to |-> to]

\* ProtectedRoute: token ? children : <Navigate to="/login" replace />
ProtectedRoute(tok, page) == IF Truthy(tok) THEN Render(page) ELSE Redirect("/login")

\* a guard that tests the role and forgets the token
AdminRouteRoleOnly(tok, rl, page) ==
  IF rl = "ADMIN" THEN Render(page) ELSE Redirect("/login")

\* AdminRoute: token && role === 'ADMIN' ? children : <Navigate to="/login" replace />
AdminRoute(tok, rl, page) ==
  IF Truthy(tok) /\ rl = "ADMIN" THEN Render(page) ELSE Redirect("/login")

\* ------------------------------------------------------------- route table
\* a route table whose switch treats every role other than ADMIN as USER
AppElseUser(tok, rl) ==
  (IF rl = "ADMIN" THEN {"/sessions"} ELSE {"/projects"})
    \cup (IF Truthy(tok) THEN {"/"} ELSE {})
    \cup (IF ~Truthy(tok) THEN {"/login", "/register"} ELSE {})

\* App: the paths of the routes it registers besides the catch-all
App(tok, rl) ==
  (IF rl = "ADMIN" THEN {"/sessions"} ELSE {})
    \cup (IF rl = "USER" THEN {"/projects"} ELSE {})
    \cup (IF Truthy(tok) THEN {"/"} ELSE {})
    \cup (IF ~Truthy(tok) THEN {"/login", "/register"} ELSE {})

\* a route table whose catch-all sends unmatched paths to /login
RouteElementCatchLogin(p, tok, rl) ==
  IF p \notin App(tok, rl) THEN Redirect("/login")
  ELSE IF p = "/sessions" THEN AdminRoute(tok, rl, "sessions")
  ELSE IF p = "/projects" THEN ProtectedRoute(tok, "my-projects")
  ELSE IF p = "/" THEN ProtectedRoute(tok, "home")
  ELSE IF p = "/login" THEN Render("login")
  ELSE Render("register")

\* the element of the route that matches p, evaluated for the identity
RouteElement(p, tok, rl) ==
  IF p \notin App(tok, rl) THEN Redirect("/")          \* path="*"
  ELSE IF p = "/sessions" THEN AdminRoute(tok, rl, "sessions")
  ELSE IF p = "/projects" THEN ProtectedRoute(tok, "my-projects")
  ELSE IF p = "/" THEN ProtectedRoute(tok, "home")
  ELSE IF p = "/login" THEN Render("login")
  ELSE Render("register")

\* the location a navigation to p ends on: <Navigate replace> is followed
\* until a route renders a page or a redirect targets the location itself
RECURSIVE Settle(_, _, _, _)
Settle(p, tok, rl, n) ==
  LET e == RouteElement(p, tok, rl) IN
  IF e.kind = "render" \/ e.to = p \/ n = 0 THEN p
  ELSE Settle(e.to, tok, rl, n - 1)

\* the page shown at location p ("blank": the matched element is a Navigate)
Rendered(p, tok, rl) == RouteElement(p, tok, rl).page

\* -------------------------------------------------------------- nav bar
\* NavBar: the targets of the links of its four groups
NavBar(tok, rl) ==
  (IF rl = "ADMIN" THEN {"/", "/sessions"} ELSE {})
    \cup (IF rl = "USER" THEN {"/", "/projects"} ELSE {})
    \cup (IF ~Truthy(tok) THEN {"/", "/login", "/register"} ELSE {"/profile"})

\* PageLayout: the nav bar is hidden on /login and /register
effectiveShowNav(p) == p \notin {"/login", "/register"}

\* the surface entry a path stands for
Entry(p) ==
  CASE p = "/" -> "home"
    [] p = "/login" -> "login"
    [] p = "/register" -> "register"
    [] p = "/projects" -> "my-projects"
    [] p = "/sessions" -> "sessions"
    [] OTHER -> "profile"

\* ------------------------------------------------------------------- state
\* useState(false) / useState(null) of a freshly mounted form page
FormInit == [isLoading |-> FALSE, error |-> Null]

IsFormPage(page) == page \in {"login", "register"}

\* the form page instance survives a re-render only if the same page is shown
SameInstance(oldPage, newPage) == IsFormPage(newPage) /\ newPage = oldPage

\* component state after the route table re-rendered
Remount(oldPage, newPage, f) == IF SameInstance(oldPage, newPage) THEN f ELSE FormInit

\* calls whose page instance was unmounted can no longer set its state
Orphan(oldPage, newPage, P) ==
  IF SameInstance(oldPage, newPage) THEN P
  ELSE {[a EXCEPT !.live = FALSE] : a \in P}

\* pending calls after a store write: each remembers the kind of the last
\* write made since it started ("login": by a call started after it)
Supersede(P, writer, kind) ==
  {[a EXCEPT !.superseded =
      IF kind = "logout" THEN "logout"
      ELSE IF a.id < writer THEN "login" ELSE "no"] : a \in P}

Ids(P) == {a.id : a \in P}

Init ==
  /\ contract \in {"token", "accessToken"}
  /\ token = useAuthStore.token
  /\ role = useAuthStore.role
  /\ \E p \in Paths : path = Settle(p, useAuthStore.token, useAuthStore.role, MaxRedirects)
  /\ form = FormInit
  /\ pending = {}
  /\ nextId = 1
  /\ lastHeader = NoHeader
  /\ nreq = 0
  /\ delivered = [id |-> 0, credential |-> Null, role |-> Null]
  /\ calls = <<>>

\* ----------------------------------------------------------------- actions
\* in-app navigation (a link, history back/forward) to p
Navigate(p) ==
  LET newPath == Settle(p, token, role, MaxRedirects)
      oldPage == Rendered(path, token, role)
      newPage == Rendered(newPath, token, role)
  IN /\ path' = newPath
     /\ form' = Remount(oldPage, newPage, form)
     /\ pending' = Orphan(oldPage, newPage, pending)
     /\ UNCHANGED <<contract, token, role, nextId, lastHeader, nreq, delivered, calls>>

\* an onSubmit that writes a provisional identity before its await
SubmitOptimistic(origin) ==
  /\ Rendered(path, token, role) = origin
  /\ ~form.isLoading
  /\ nextId <= MaxAttempts
  /\ form' = [isLoading |-> TRUE, error |-> Null]
  /\ pending' = pending \cup
       {[id |-> nextId, origin |-> origin, live |-> TRUE, superseded |-> "no"]}
  /\ nextId' = nextId + 1
  /\ lastHeader' = Authorization(token)
  /\ nreq' = nreq + 1
  /\ token' = "pending"
  /\ UNCHANGED <<contract, role, path, delivered, calls>>

\* a form page's onSubmit up to its await: the request leaves through the
\* interceptor and the handler suspends
Submit(origin) ==
  /\ Rendered(path, token, role) = origin
  /\ ~form.isLoading                      \* the submit button is disabled
  /\ nextId <= MaxAttempts
  /\ form' = [isLoading |-> TRUE, error |-> Null]
  /\ pending' = pending \cup
       {[id |-> nextId, origin |-> origin, live |-> TRUE, superseded |-> "no"]}
  /\ nextId' = nextId + 1
  /\ lastHeader' = Authorization(token)
  /\ nreq' = nreq + 1
  /\ UNCHANGED <<contract, token, role, path, delivered, calls>>

\* LoginPage.onSubmit, first half
SubmitLogin == Submit("login")

\* RegisterPage.onSubmit, first half
SubmitRegister == Submit("register")

\* onSubmit after its await resolved: login(...), navigate('/'), finally
ResolveOk(a, c, r) ==
  LET data == BackendData(contract, c, r)
      arg == IF a.origin = "login"
               THEN LoginPageData(loginUser(contract, data))
               ELSE RegisterPageData(registerUser(contract, data))
      st == login(arg)
      newPath == Settle("/", st.token, st.role, MaxRedirects)
      oldPage == Rendered(path, token, role)
      newPage == Rendered(newPath, st.token, st.role)
      f == Remount(oldPage, newPage, form)
  IN /\ a \in pending
     /\ token' = st.token
     /\ role' = st.role
     /\ path' = newPath
     /\ form' = IF a.live /\ SameInstance(oldPage, newPage)
                  THEN [f EXCEPT !.isLoading = FALSE] ELSE f
     /\ pending' = Supersede(Orphan(oldPage, newPage, pending \ {a}), a.id, "login")
     /\ delivered' = [id |-> a.id, credential |-> c, role |-> r]
     /\ UNCHANGED <<contract, nextId, lastHeader, nreq, calls>>

\* onSubmit after its await rejected: catch, finally
ResolveFail(a, thrown) ==
  /\ a \in pending
  /\ form' = IF a.live
               THEN [isLoading |-> FALSE,
                     error |-> ErrorText(thrown,
                                 IF a.origin = "login" THEN "Login error"
                                                       ELSE "Registration error")]
               ELSE form
  /\ pending' = pending \ {a}
  /\ UNCHANGED <<contract, token, role, path, nextId, lastHeader, nreq, delivered, calls>>

\* a handleLogout that navigates to the home entry instead of /login
handleLogoutHome ==
  LET newPath == Settle("/", logout.token, logout.role, MaxRedirects)
      oldPage == Rendered(path, token, role)
      newPage == Rendered(newPath, logout.token, logout.role)
  IN /\ effectiveShowNav(path)
     /\ Truthy(token)
     /\ token' = logout.token
     /\ role' = logout.role
     /\ path' = newPath
     /\ form' = Remount(oldPage, newPage, form)
     /\ pending' = Supersede(Orphan(oldPage, newPage, pending), 0, "logout")
     /\ UNCHANGED <<contract, nextId, lastHeader, nreq, delivered, calls>>

\* NavBar.handleLogout: logout(), navigate('/login')
handleLogout ==
  LET newPath == Settle("/login", logout.token, logout.role, MaxRedirects)
      oldPage == Rendered(path, token, role)
      newPage == Rendered(newPath, logout.token, logout.role)
  IN /\ effectiveShowNav(path)
     /\ Truthy(token)                     \* the Logout button is in the else branch
     /\ token' = logout.token
     /\ role' = logout.role
     /\ path' = newPath
     /\ form' = Remount(oldPage, newPage, form)
     /\ pending' = Supersede(Orphan(oldPage, newPage, pending), 0, "logout")
     /\ UNCHANGED <<contract, nextId, lastHeader, nreq, delivered, calls>>

\* an interceptor that resets the store when it finds no token to attach
ApiRequestLogout ==
  /\ nreq - (nextId - 1) < MaxRequests
  /\ lastHeader' = Authorization(token)
  /\ nreq' = nreq + 1
  /\ token' = IF Truthy(token) THEN token ELSE logout.token
  /\ role' = IF Truthy(token) THEN role ELSE logout.role
  /\ UNCHANGED <<contract, path, form, pending, nextId, delivered, calls>>

\* any other call through `api` (getAllSessions, analyzeProject, ...)
ApiRequest ==
  /\ nreq - (nextId - 1) < MaxRequests
  /\ lastHeader' = Authorization(token)
  /\ nreq' = nreq + 1
  /\ UNCHANGED <<contract, token, role, path, form, pending, nextId, delivered, calls>>

Next ==
  \/ \E p \in Paths : Navigate(p)
  \/ SubmitLogin
  \/ SubmitRegister
  \/ \E a \in pending, c \in Tokens, r \in BackendRoles : ResolveOk(a, c, r)
  \/ \E a \in pending, th \in Thrown : ResolveFail(a, th)
  \/ handleLogout
  \/ ApiRequest

Spec == Init /\ [][Next]_vars

\* ------------------------------------------- the store driven directly
Call(op, t, r) == [op |-> op, token |-> t, role |-> r]

StoreLogin(t, r) ==
  LET st == login([token |-> t, role |-> r]) IN
  /\ Len(calls) < MaxCalls
  /\ token' = st.token
  /\ role' = st.role
  /\ calls' = Append(calls, Call("login", t, r))
  /\ UNCHANGED <<contract, path, form, pending, nextId, lastHeader, nreq, delivered>>

StoreLogout ==
  /\ Len(calls) < MaxCalls
  /\ token' = logout.token
  /\ role' = logout.role
  /\ calls' = Append(calls, Call("logout", Null, Null))
  /\ UNCHANGED <<contract, path, form, pending, nextId, lastHeader, nreq, delivered>>

InitStore == Init /\ contract = "token" /\ path = "/"

NextStore ==
  \/ \E t \in Tokens, r \in Roles : StoreLogin(t, r)
  \/ StoreLogout

SpecStore == InitStore /\ [][NextStore]_vars

\* ------------------------------------------------------------------ claims
LastCall == IF Len(calls) = 0 THEN "none" ELSE calls[Len(calls)].op

\* the identity was last written by an authentication call that resolved
Resolved(a) == a \in pending /\ a.id \notin Ids(pending')

\* C1: in every reachable state role is present if and only if token is
\* present.
C1_RoleIffToken == Present(role) <=> Present(token)

\* C2: over every sequence of store calls login(token, role) and logout(),
\* isAuthenticated is true exactly when the sequence is non-empty and its last
\* call was login, never true with role absent and never false with role
\* present.
C2_AuthenticatedIffLastLogin ==
  /\ isAuthenticated(token) <=> (LastCall = "login")
  /\ ~(isAuthenticated(token) /\ ~Present(role))
  /\ ~(~isAuthenticated(token) /\ Present(role))

C2_Witness ==
  /\ Len(calls) >= 2
  /\ calls[Len(calls) - 1].op = "logout"
  /\ LastCall = "login"
  /\ isAuthenticated(token)
  /\ token = calls[Len(calls)].token

\* C3: when a call A resolves after a call B that was started later has
\* already resolved and written the identity, A's resolution leaves the
\* stored token and role as B wrote them.
C3_LateLoginKeepsNewer ==
  [][\A a \in pending :
       (Resolved(a) /\ a.superseded = "login") => (token' = token /\ role' = role)]_vars

\* C4: when a call A resolves after logout() was invoked while A was pending,
\* the identity stays unauthenticated (token absent, role absent).
C4_LateLoginAfterLogout ==
  [][\A a \in pending :
       (Resolved(a) /\ a.superseded = "logout" /\ token = Null /\ role = Null)
         => (token' = Null /\ role' = Null)]_vars

\* C5: every request that passes the interceptor carries Authorization =
\* Bearer <the store's current token> when the token is present and no
\* Authorization header when it is absent.
C5_BearerCurrentToken ==
  [][nreq' # nreq =>
       lastHeader' = (IF Present(token) THEN <<"Bearer", token>> ELSE NoHeader)]_vars

C5_Witness ==
  /\ nreq >= 2
  /\ \E t \in Tokens : lastHeader = <<"Bearer", t>> /\ token = t /\ delivered.credential = t

\* C6: navigating to /sessions ends on /login when the token is absent and
\* when the identity is {token present, role USER}; it renders the sessions
\* page when the identity is {token present, role ADMIN}.
C6_AdminDestination ==
  LET dest == Settle("/sessions", token, role, MaxRedirects) IN
  /\ ~Present(token) => dest = "/login"
  /\ (Present(token) /\ role = "USER") => dest = "/login"
  /\ (Present(token) /\ role = "ADMIN") =>
       (dest = "/sessions" /\ Rendered(dest, token, role) = "sessions")

\* C7: with the token absent, a navigation to /, /projects or /sessions ends
\* on /login.
C7_UnauthenticatedToLogin ==
  ~Present(token) =>
    \A p \in {"/", "/projects", "/sessions"} :
      Settle(p, token, role, MaxRedirects) = "/login"

\* C8: the active entries of the route table and of the navigation bar are
\* exactly {home, my-projects} for a USER, exactly {home, sessions} for an
\* ADMIN and exactly {login, register} when the token is absent.
C8_ActiveEntries ==
  LET routes == {Entry(p) : p \in App(token, role)}
      links == {Entry(p) : p \in NavBar(token, role)}
  IN /\ (Present(token) /\ role = "USER") =>
          (routes = {"home", "my-projects"} /\ links = {"home", "my-projects"})
     /\ (Present(token) /\ role = "ADMIN") =>
          (routes = {"home", "sessions"} /\ links = {"home", "sessions"})
     /\ ~Present(token) =>
          (routes = {"login", "register"} /\ links = {"login", "register"})

\* C9: when an authentication call succeeds with credential c and role r,
\* the identity immediately afterwards is {token: c, role: r}, on the login
\* page and on the register page alike.
C9_LoginWithIssuedPair ==
  [][delivered' # delivered =>
       (token' = delivered'.credential /\ role' = delivered'.role)]_vars

\* C10: logout() on an unauthenticated identity leaves token and role absent
\* as they were, and a logout() right after a logout() leaves the identity
\* as the first one left it.
C10_LogoutIdempotent ==
  [][(Len(calls') = Len(calls) + 1 /\ calls'[Len(calls')].op = "logout") =>
       /\ (token = Null /\ role = Null) => (token' = Null /\ role' = Null)
       /\ LastCall = "logout" => (token' = token /\ role' = role)]_vars

C10_Witness ==
  /\ Len(calls) >= 3
  /\ calls[Len(calls) - 2].op = "login"
  /\ calls[Len(calls) - 1].op = "logout"
  /\ LastCall = "logout"
  /\ token = Null
  /\ role = Null

\* C11: with the token present and a stored role outside {ADMIN, USER}, the
\* only active route is home, neither the my-projects nor the sessions route
\* or link is active, and the admin guard redirects to /login.
C11_FailClosed ==
  (Present(token) /\ role \notin Roles) =>
    /\ {Entry(p) : p \in App(token, role)} = {"home"}
    /\ {"/projects", "/sessions"} \cap NavBar(token, role) = {}
    /\ AdminRoute(token, role, "sessions") = Redirect("/login")
    /\ \A p \in {"/projects", "/sessions"} :
         Rendered(Settle(p, token, role, MaxRedirects), token, role) = "home"

C11_Witness ==
  /\ Present(token)
  /\ role = "GUEST"
  /\ delivered.role = "GUEST"
  /\ Rendered(path, token, role) = "home"

\* some authentication call is in flight before and after the step
InFlight == \E a \in pending : a.id \in Ids(pending')

\* C12 as stated: while an authentication call is in flight the identity
\* stays equal to its value before the submit.
C12_IdentityFixedWhileInFlight ==
  [][(nextId' # nextId \/ InFlight) => (token' = token /\ role' = role)]_vars

\* C12 as amended: the submit writes nothing to the identity, and while a
\* call is in flight the identity changes only when another call's response
\* arrives or logout() is invoked.
C12_NoOptimisticWrite ==
  [][/\ nextId' # nextId => (token' = token /\ role' = role)
     /\ (InFlight /\ (token' # token \/ role' # role)) =>
          \/ delivered' # delivered
          \/ (Truthy(token) /\ token' = Null /\ role' = Null)]_vars

C12_Witness ==
  /\ \E a \in pending : a.live /\ a.superseded = "no"
  /\ form.isLoading
  /\ token = Null
  /\ role = Null
  /\ nreq >= 2

\* C13: the identity starts as {token absent, role absent} and changes only
\* through the store's login, to the token and role the handler supplies, and
\* through logout, to the default state; navigation, guards, the interceptor
\* and API calls leave token and role unchanged.
C13_OnlyLoginAndLogout ==
  /\ token = Null /\ role = Null
  /\ [][(token' # token \/ role' # role) =>
          \/ \E a \in pending :
               LET data == BackendData(contract, delivered'.credential, delivered'.role)
                   arg == IF a.origin = "login"
                            THEN LoginPageData(loginUser(contract, data))
                            ELSE RegisterPageData(registerUser(contract, data))
               IN /\ Resolved(a)
                  /\ delivered'.id = a.id
                  /\ token' = arg.token
                  /\ role' = arg.role
          \/ /\ Truthy(token)
             /\ effectiveShowNav(path)
             /\ delivered' = delivered
             /\ token' = Null
             /\ role' = Null]_vars

C13_Witness ==
  /\ token \in Tokens
  /\ role = "USER"
  /\ path = "/projects"
  /\ nreq - (nextId - 1) >= 1
  /\ lastHeader = <<"Bearer", token>>

\* C14: for every identity, a navigation to a path that matches none of the
\* routes registered for it is redirected by the catch-all to '/'.
C14_CatchAllToHome ==
  \A p \in Paths \ App(token, role) :
    /\ RouteElement(p, token, role) = Redirect("/")
    /\ Settle(p, token, role, MaxRedirects) = "/"

C14_Witness ==
  /\ path = "/"
  /\ "/" \notin App(token, role)
  /\ delivered.id > 0
  /\ Present(role)

\* C15: for every identity and requested path, following the redirects of
\* the route table ends on a path whose route renders a page.
C15_RedirectsEndOnPage ==
  \A p \in Paths :
    Rendered(Settle(p, token, role, MaxRedirects), token, role) # "blank"

\* C16: after a login-page submission whose call succeeds, login is called,
\* the handler navigates to '/', and the user is on the rendered home page
\* with the token present.
C16_LoginEndsOnHome ==
  [][\A a \in pending :
       (Resolved(a) /\ a.origin = "login" /\ delivered'.id = a.id) =>
         /\ path' = "/"
         /\ Rendered(path', token', role') = "home"
         /\ Present(token')]_vars

\* the texts a catch block can pass to setError
ErrorTexts == {"err.message", "Login error", "Registration error"}

\* the call a fails in this step
Failed(a) == Resolved(a) /\ delivered' = delivered

\* C17 as stated: when the authentication call fails, identity and path are
\* as before the step, the error message is recorded and isLoading is false.
C17_FailureRecorded ==
  [][\A a \in pending :
       Failed(a) =>
         /\ token' = token /\ role' = role /\ path' = path
         /\ form'.error \in ErrorTexts
         /\ form'.isLoading = FALSE]_vars

\* C17 as amended: a failed call leaves identity and path unchanged; the
\* error message is recorded and isLoading returns to false on the page
\* instance that submitted if it is still mounted, and no component state
\* changes otherwise.
C17_FailureRecordedIfMounted ==
  [][\A a \in pending :
       Failed(a) =>
         /\ token' = token /\ role' = role /\ path' = path
         /\ a.live => (form'.error \in ErrorTexts /\ form'.isLoading = FALSE)
         /\ ~a.live => form' = form]_vars

C17_Witness ==
  /\ form.error \in ErrorTexts
  /\ ~form.isLoading
  /\ nextId > 1
  /\ token = Null
  /\ role = Null
  /\ path \in {"/login", "/register"}

\* C18: in every reachable state the sessions page is rendered only with the
\* token present and role ADMIN, and the my-projects page only with the token
\* present and role USER.
C18_RolePagesOnlyForRole ==
  /\ Rendered(path, token, role) = "sessions" => (Present(token) /\ role = "ADMIN")
  /\ Rendered(path, token, role) = "my-projects" => (Present(token) /\ role = "USER")

C18_Witness ==
  /\ path = "/sessions"
  /\ Rendered(path, token, role) = "sessions"
  /\ delivered.role = "ADMIN"

\* C19: whenever the nav bar is shown, every link target it shows has a
\* registered non-catch-all route in App for the same identity.
C19_LinksHaveRoutes ==
  effectiveShowNav(path) => NavBar(token, role) \subseteq App(token, role)

\* C20: pressing Logout from an authenticated state resets the identity to
\* {token absent, role absent} and navigates to /login, whose route is active,
\* so the login page is rendered.
C20_LogoutEndsOnLogin ==
  [][(Truthy(token) /\ ~Truthy(token') /\ delivered' = delivered) =>
       /\ token' = Null
       /\ role' = Null
       /\ path' = "/login"
       /\ "/login" \in App(token', role')
       /\ Rendered(path', token', role') = "login"]_vars

C20_Witness ==
  /\ delivered.id > 0
  /\ token = Null
  /\ role = Null
  /\ path = "/login"
  /\ Rendered(path, token, role) = "login"
  /\ form = FormInit

====
